---- MODULE Spec2Model ----
(***************************************************************************)
(* Model of tdh3flash-rs (src/src/main.rs): a host tool that uploads a     *)
(* firmware image to a radio bootloader over a serial port.                *)
(*                                                                         *)
(* The program is single threaded.  Its state is the position in main /    *)
(* upload_firmware (pc), the locals of those functions, and what it has    *)
(* done to the outside world (exit status, diagnostics, transport calls).  *)
(* Every blocking call on the environment (file system, serial port) is    *)
(* one step; the environment chooses the outcome of the call.              *)
(***************************************************************************)
EXTENDS Integers, Sequences, FiniteSets, TLC

(***************************************************************************)
(* Bounds of the model (not program constants).                            *)
(***************************************************************************)
\* largest number of handshake reads (read_byte_compat calls) explored
MaxPolls == 4
\* largest raw file length explored by the size check alone (SpecSizes)
MaxRawLength == 65600

(***************************************************************************)
(* Inputs explored.                                                        *)
(***************************************************************************)
\* argv lengths: the right one (3) and two wrong ones
ArgLens == {2, 3, 4}
\* raw firmware file lengths: around the lower and upper limit of the size check
FirmwareLengths == {39968, 39999, 40000, 40001, 65536, 65537}
\* contents of the firmware file, byte at offset i (see FileByte)
Fills == {"zero", "ramp"}
\* the firmware files explored: each length with each of these contents, and
\* one image made of 0x01 bytes and one of 0xFF bytes, one byte over 40000
FirmwareFiles ==
  (FirmwareLengths \X Fills) \cup ({40001} \X {"ones", "ff"})
\* byte values the device may send during the handshake (u8)
HsBytes == {0, 90, 165}
\* byte values the device may send as an acknowledgement (u8)
AckBytes == {0, 165}

(***************************************************************************)
(* ExitCodes (main.rs 11-20).  RUNNING: the process has not exited.        *)
(* PANIC: exit status of a Rust panic (index out of range in a slice).     *)
(***************************************************************************)
RUNNING == 0 - 1
ExitOk == 0
FileError == 1
FilesizeError == 2
DeviceError == 3
InitWriteError == 4
WriteError == 5
AckError == 6
ParametersError == 999
PANIC == 101

\* no byte offset in the diagnostic written to stderr
NoPos == 0 - 1
\* read_byte_compat's value for a failed read
NoData == -1
\* the sentinel byte the bootloader repeats (main.rs 107)
Sentinel == 165

VARIABLES
  pc,              \* position in the program
  status,          \* exit status of the process, RUNNING while it runs
  err_msg,         \* class of the diagnostic written to stderr, "none" if none
  err_pos,         \* byte offset printed in that diagnostic, NoPos if none
  args_len,        \* main: args.len()
  content_length,  \* main: file_content.len()
  fill,            \* contents of file_content (see FileByte)
  port_open,       \* main: the serial port has been opened
  found,           \* upload_firmware: found
  byte,            \* upload_firmware: byte (result of read_byte_compat)
  len,             \* upload_firmware: len (padded length)
  padded_data_len, \* upload_firmware: padded_data.len()
  blk,             \* upload_firmware: blk
  packet,          \* upload_firmware: packet, as last handed to write_all
  ack,             \* upload_firmware: ack[0]
  progress,        \* byte offset of the last "Flashing" line, NoPos if none
  polls,           \* history: handshake reads performed
  sentinels,       \* history: handshake reads that returned the sentinel
  initWrites,      \* history: write_all(init) calls
  initSent,        \* history: the bytes handed to write_all(init), <<>> if none
  nBlockWrites,    \* history: write_all(packet) calls
  nFlushes,        \* history: flush calls
  nAcks,           \* history: acknowledgement reads
  lastOp,          \* history: last transport call
  lastOk           \* history: that call returned Ok

vars == <<pc, status, err_msg, err_pos, args_len, content_length, fill,
          port_open, found, byte, len, padded_data_len, blk, packet, ack,
          progress, polls, sentinels, initWrites, initSent, nBlockWrites,
          nFlushes, nAcks, lastOp, lastOk>>

mainVars == <<args_len, content_length, fill, port_open>>
hsVars == <<found, byte, polls, sentinels, initWrites, initSent>>
xferVars == <<len, padded_data_len, blk, packet, ack, progress,
              nBlockWrites, nFlushes, nAcks>>
ioVars == <<lastOp, lastOk>>
exitVars == <<status, err_msg, err_pos>>

(***************************************************************************)
(* Pure parts of the program.                                              *)
(***************************************************************************)
\* fs::read's result: byte of the file at offset i (0-based)
FileByte(f, i) ==
  CASE f = "ramp" -> (i * 7 + 3) % 256
    [] f = "ones" -> 1
    [] f = "ff" -> 255
    [] OTHER -> 0

\* variant: the quotient is rounded down and one is added, whatever the rest
CeilDiv32_AlwaysUp(n) == (n \div 32) + 1

\* (content_length as f64 / 32.0).ceil(): the division is exact in f64 for
\* every length below 2^53, so the ceiling is the integer ceiling
CeilDiv32(n) == IF n % 32 = 0 THEN n \div 32 ELSE (n \div 32) + 1

\* get_padded_length, for the lengths whose result fits an i32 (all explored)
get_padded_length(n) == CeilDiv32(n) * 32

\* variant: <= for <, so that a padded length of 40000 is rejected
FilesizeRejected_LowerExclusive(l) == l <= 40000 \/ l > 65536

\* check_firmware's test: the padded length is out of range
FilesizeRejected(l) == l < 40000 \/ l > 65536

\* variant: the buffer is never resized
PaddedDataLen_NoResize(n, l) == n

\* padded_data.len() after the conditional resize
PaddedDataLen(n, l) == IF n # l THEN l + 32 ELSE n

\* padded_data[i]: the file's bytes, then the zeros resize appended
PaddedByte(i) == IF i < content_length THEN FileByte(fill, i) ELSE 0

\* the slice padded_data[b*32 .. b*32+32] is in range (else the program panics)
SliceInRange(b, n) == b * 32 + 32 <= n

\* variant: the slice starts one byte late
Chunk_OffByOne(b) == [j \in 1..32 |-> PaddedByte(b * 32 + j)]

\* chunk = &padded_data[b*32 .. b*32+32]
Chunk(b) == [j \in 1..32 |-> PaddedByte(b * 32 + j - 1)]

\* variant: an inclusive range, 0..=(len/32)
BlockCount_Inclusive(l) == (l \div 32) + 1

\* the number of iterations of "for blk in 0..(len/32)"
BlockCount(l) == l \div 32

\* variant: > for >=, so that no block is the last one
Opcode_Strict(b, l) == IF (b * 32) + 32 > l THEN 161 + 1 ELSE 161

\* packet[0]: 0xa1, plus one for the last block
Opcode(b, l) == IF (b * 32) + 32 >= l THEN 161 + 1 ELSE 161

\* variant: a shift by 4 for the shift by 8
IndexHigh_Shift4(b) == (b \div 16) % 256

\* packet[1] = ((blk >> 8) & 0xff) as u8
IndexHigh(b) == (b \div 256) % 256

\* packet[2] = (blk & 0xff) as u8
IndexLow(b) == b % 256

\* variant: u8::saturating_add
WrappingAdd_Saturating(a, b) == IF a + b > 255 THEN 255 ELSE a + b

\* u8::wrapping_add
WrappingAdd(a, b) == (a + b) % 256

\* packet[3] after "for b in chunk { packet[3] = packet[3].wrapping_add(*b) }",
\* over the first n bytes of the chunk
RECURSIVE ChecksumUpTo(_, _)
ChecksumUpTo(chunk, n) ==
  IF n = 0 THEN 0 ELSE WrappingAdd(ChecksumUpTo(chunk, n - 1), chunk[n])

Checksum(chunk) == ChecksumUpTo(chunk, Len(chunk))

\* the packet handed to write_all for block b of an image of padded length l
BuildPacket(b, l, chunk) ==
  <<Opcode(b, l), IndexHigh(b), IndexLow(b), Checksum(chunk)>> \o chunk

\* variant: two bytes of 0x55 fewer, 34 bytes
InitSequence_Short ==
  <<160, 238, 116, 113, 7, 116>> \o [j \in 1..28 |-> 85]

\* the 36 bytes of init
InitSequence ==
  <<160, 238, 116, 113, 7, 116>> \o [j \in 1..30 |-> 85]

(***************************************************************************)
(* Results of the transport's calls, chosen by the environment.            *)
(* read: Err, or Ok(n) with n bytes stored (n = 0 leaves the buffer as is).*)
(***************************************************************************)
ReadErr == [ok |-> FALSE, n |-> 0, b |-> 0]
ReadResults(bytes) ==
  {ReadErr, [ok |-> TRUE, n |-> 0, b |-> 0]}
    \cup {[ok |-> TRUE, n |-> 1, b |-> x] : x \in bytes}

\* buf[0] after port.read on a buffer made by vec![0]
BufAfterRead(r) == IF r.ok /\ r.n = 1 THEN r.b ELSE 0

\* read_byte_compat: buf[0] as i16 (a u8 widens to itself), -1 on Err
read_byte_compat(r) == IF r.ok THEN BufAfterRead(r) ELSE NoData

(***************************************************************************)
(* The branches of the handshake loop.                                     *)
(***************************************************************************)
\* variant: a failed read ends the loop whether or not the radio was found
HsBreaks_Unarmed(b, f) == b = NoData

\* byte == -1 and found: break
HsBreaks(b, f) == b = NoData /\ f

\* variant: a failed read is taken for the radio as well
HsSendsInit_OnSilence(b, f) == (b = Sentinel \/ b = NoData) /\ ~f

\* variant: the init sequence is sent on every sentinel
HsSendsInit_EverySentinel(b, f) == b = Sentinel

\* byte == 0xa5 and !found: set found and write init
HsSendsInit(b, f) == b = Sentinel /\ ~f

\* variant: a zero byte is let through as line noise
HsUnexpected_ZeroTolerated(b) == b # NoData /\ b # Sentinel /\ b # 0

\* the else branch: neither -1 nor 0xa5
HsUnexpected(b) == b # NoData /\ b # Sentinel

(***************************************************************************)
(* The exits: status, class of the diagnostic, byte offset printed in it.  *)
(***************************************************************************)
UsageExit == [status |-> ParametersError, msg |-> "usage", pos |-> NoPos]
NotAFileExit == [status |-> FileError, msg |-> "not_a_file", pos |-> NoPos]
ReadFileExit == [status |-> FileError, msg |-> "read_file", pos |-> NoPos]
FilesizeExit == [status |-> FilesizeError, msg |-> "filesize", pos |-> NoPos]
DeviceExit == [status |-> DeviceError, msg |-> "open_device", pos |-> NoPos]
InitWriteExit == [status |-> InitWriteError, msg |-> "init_write", pos |-> NoPos]
UnexpectedExit == [status |-> InitWriteError, msg |-> "unexpected_data", pos |-> NoPos]
SlicePanic == [status |-> PANIC, msg |-> "panic", pos |-> NoPos]
\* variant: the block index is printed in place of the byte offset
WriteErrorExit_BlockIndex(b) == [status |-> WriteError, msg |-> "write", pos |-> b]
WriteErrorExit(b) == [status |-> WriteError, msg |-> "write", pos |-> b * 32]
\* variant: a failed flush exits with the status of a failed acknowledgement
FlushErrorExit_AckStatus(b) == [status |-> AckError, msg |-> "flush", pos |-> NoPos]
FlushErrorExit(b) == [status |-> WriteError, msg |-> "flush", pos |-> NoPos]
\* variant: a failed acknowledgement read exits with the write status
AckErrorExit_WriteStatus(b) == [status |-> WriteError, msg |-> "ack_read", pos |-> b * 32]
AckErrorExit(b) == [status |-> AckError, msg |-> "ack_read", pos |-> b * 32]
DoneExit == [status |-> ExitOk, msg |-> "none", pos |-> NoPos]

\* process::exit after the diagnostic
Exit(e) ==
  /\ pc' = "exited"
  /\ status' = e.status
  /\ err_msg' = e.msg
  /\ err_pos' = e.pos

\* a transport call and its outcome
Io(op, ok) == lastOp' = op /\ lastOk' = ok

(***************************************************************************)
(* Initial state: the process has been started with some argv.             *)
(***************************************************************************)
Init ==
  /\ pc = "args"
  /\ status = RUNNING
  /\ err_msg = "none"
  /\ err_pos = NoPos
  /\ args_len \in ArgLens
  /\ content_length = 0
  /\ fill = "zero"
  /\ port_open = FALSE
  /\ found = FALSE
  /\ byte = 0
  /\ len = 0
  /\ padded_data_len = 0
  /\ blk = 0
  /\ packet = <<>>
  /\ ack = 0
  /\ progress = NoPos
  /\ polls = 0
  /\ sentinels = 0
  /\ initWrites = 0
  /\ initSent = <<>>
  /\ nBlockWrites = 0
  /\ nFlushes = 0
  /\ nAcks = 0
  /\ lastOp = "none"
  /\ lastOk = TRUE

(***************************************************************************)
(* main, up to the call of upload_firmware.                                *)
(***************************************************************************)
\* args.len() != 3: usage and exit
CheckArgs ==
  /\ pc = "args"
  /\ IF args_len # 3
       THEN Exit(UsageExit)
       ELSE pc' = "pre_check" /\ UNCHANGED exitVars
  /\ UNCHANGED <<mainVars, hsVars, xferVars, ioVars>>

\* pre_check_firmware: the path names something that is not a regular file
PreCheckFirmware ==
  /\ pc = "pre_check"
  /\ \E is_special_file \in BOOLEAN :
       IF is_special_file
         THEN Exit(NotAFileExit)
         ELSE pc' = "read_firmware" /\ UNCHANGED exitVars
  /\ UNCHANGED <<mainVars, hsVars, xferVars, ioVars>>

\* read_firmware: fs::read fails, or returns the bytes of one of the files
ReadFirmwareFrom(files) ==
  /\ pc = "read_firmware"
  /\ \E ok \in BOOLEAN, file \in files :
       IF ok
         THEN /\ content_length' = file[1]
              /\ fill' = file[2]
              /\ pc' = "check_firmware"
              /\ UNCHANGED exitVars
         ELSE /\ Exit(ReadFileExit)
              /\ UNCHANGED <<content_length, fill>>
  /\ UNCHANGED <<args_len, port_open, hsVars, xferVars, ioVars>>

ReadFirmware == ReadFirmwareFrom(FirmwareFiles)

\* read_firmware, for a file of any length up to MaxRawLength
ReadFirmwareAnyLength == ReadFirmwareFrom((0..MaxRawLength) \X {"zero"})

\* check_firmware: the size check
CheckFirmware ==
  /\ pc = "check_firmware"
  /\ IF FilesizeRejected(get_padded_length(content_length))
       THEN Exit(FilesizeExit)
       ELSE pc' = "open_port" /\ UNCHANGED exitVars
  /\ UNCHANGED <<mainVars, hsVars, xferVars, ioVars>>

\* open_port, then main enters upload_firmware
OpenPort ==
  /\ pc = "open_port"
  /\ \E ok \in BOOLEAN :
       IF ok
         THEN /\ port_open' = TRUE
              /\ pc' = "hs_read"
              /\ UNCHANGED exitVars
         ELSE /\ Exit(DeviceExit)
              /\ UNCHANGED port_open
  /\ UNCHANGED <<args_len, content_length, fill, hsVars, xferVars, ioVars>>

(***************************************************************************)
(* upload_firmware: the handshake loop.                                    *)
(***************************************************************************)
\* after the loop: len, padded_data, and the entry of the for loop
\* (an empty range goes straight to "Done." and exit(0))
StartTransfer ==
  LET l == get_padded_length(content_length) IN
    /\ len' = l
    /\ padded_data_len' = PaddedDataLen(content_length, l)
    /\ blk' = 0
    /\ IF BlockCount(l) > 0
         THEN pc' = "xfer_write" /\ UNCHANGED exitVars
         ELSE Exit(DoneExit)
    /\ UNCHANGED <<packet, ack, progress, nBlockWrites, nFlushes, nAcks>>

\* one iteration of the loop, up to the next call on the transport:
\* read_byte_compat, then the branch on byte
HsRead ==
  /\ pc = "hs_read"
  /\ polls < MaxPolls
  /\ \E r \in ReadResults(HsBytes) :
       LET b == read_byte_compat(r) IN
         /\ byte' = b
         /\ polls' = polls + 1
         /\ sentinels' = IF b = Sentinel THEN sentinels + 1 ELSE sentinels
         /\ Io("read", r.ok)
         /\ IF HsUnexpected(b)
              THEN /\ Exit(UnexpectedExit)
                   /\ UNCHANGED <<found, xferVars>>
              ELSE IF HsBreaks(b, found)
                THEN /\ StartTransfer
                     /\ UNCHANGED found
                ELSE IF HsSendsInit(b, found)
                  THEN /\ found' = TRUE
                       /\ pc' = "init_write"
                       /\ UNCHANGED <<exitVars, xferVars>>
                  ELSE /\ pc' = "hs_read"
                       /\ UNCHANGED <<found, exitVars, xferVars>>
  /\ UNCHANGED <<mainVars, initWrites, initSent>>

\* variant: the result of write_all(init) is dropped, errors included
InitWriteAccepted_ErrorsIgnored(ok) == TRUE

\* write_all(init) is taken as good: unwrap_or_else runs on Err only
InitWriteAccepted(ok) == ok

\* port.write_all(init): an error is fatal, else the loop goes on
InitWrite ==
  /\ pc = "init_write"
  /\ \E ok \in BOOLEAN :
       /\ initWrites' = initWrites + 1
       /\ initSent' = InitSequence
       /\ Io("write_init", ok)
       /\ IF InitWriteAccepted(ok)
            THEN pc' = "hs_read" /\ UNCHANGED exitVars
            ELSE Exit(InitWriteExit)
  /\ UNCHANGED <<mainVars, found, byte, polls, sentinels, xferVars>>

(***************************************************************************)
(* upload_firmware: the transfer loop.                                     *)
(***************************************************************************)
\* the "Flashing" line of every 64th block
ProgressAfter(b, prev) == IF b % 64 = 0 THEN b * 32 ELSE prev

\* the head of an iteration: slice the chunk, build the packet, write_all
XferWrite ==
  /\ pc = "xfer_write"
  /\ IF ~SliceInRange(blk, padded_data_len)
       THEN /\ Exit(SlicePanic)
            /\ UNCHANGED <<packet, progress, nBlockWrites, ioVars>>
       ELSE \E ok \in BOOLEAN :
              /\ progress' = ProgressAfter(blk, progress)
              /\ packet' = BuildPacket(blk, len, Chunk(blk))
              /\ nBlockWrites' = nBlockWrites + 1
              /\ Io("write_block", ok)
              /\ IF ok
                   THEN pc' = "xfer_flush" /\ UNCHANGED exitVars
                   ELSE Exit(WriteErrorExit(blk))
  /\ UNCHANGED <<mainVars, hsVars, len, padded_data_len, blk, ack, nFlushes, nAcks>>

\* port.flush(), then ack = vec![0]
XferFlush ==
  /\ pc = "xfer_flush"
  /\ \E ok \in BOOLEAN :
       /\ nFlushes' = nFlushes + 1
       /\ Io("flush", ok)
       /\ IF ok
            THEN /\ pc' = "xfer_ack"
                 /\ ack' = 0
                 /\ UNCHANGED exitVars
            ELSE /\ Exit(FlushErrorExit(blk))
                 /\ UNCHANGED ack
  /\ UNCHANGED <<mainVars, hsVars, len, padded_data_len, blk, packet, progress,
                 nBlockWrites, nAcks>>

\* variant: the result of the read is dropped, errors included
AckAccepted_ErrorsIgnored(r) == TRUE

\* variant: a byte other than zero is taken as a refusal
AckAccepted_ZeroOnly(r) == r.ok /\ BufAfterRead(r) = 0

\* the acknowledgement read is taken as good: unwrap_or_else runs on Err only
AckAccepted(r) == r.ok

\* variant: the loop has no upper end
LoopContinues_Unbounded(b, l) == TRUE

\* the range 0..(len/32) has a block after b
LoopContinues(b, l) == b + 1 < BlockCount(l)

\* port.read(ack), then the next iteration, or "Done." and exit(0)
XferAck ==
  /\ pc = "xfer_ack"
  /\ \E r \in ReadResults(AckBytes) :
       /\ nAcks' = nAcks + 1
       /\ Io("ack_read", r.ok)
       /\ ack' = BufAfterRead(r)
       /\ IF AckAccepted(r)
            THEN IF LoopContinues(blk, len)
                   THEN /\ blk' = blk + 1
                        /\ pc' = "xfer_write"
                        /\ UNCHANGED exitVars
                   ELSE /\ Exit(DoneExit)
                        /\ UNCHANGED blk
            ELSE /\ Exit(AckErrorExit(blk))
                 /\ UNCHANGED blk
  /\ UNCHANGED <<mainVars, hsVars, len, padded_data_len, packet, progress,
                 nBlockWrites, nFlushes>>

Next ==
  \/ CheckArgs
  \/ PreCheckFirmware
  \/ ReadFirmware
  \/ CheckFirmware
  \/ OpenPort
  \/ HsRead
  \/ InitWrite
  \/ XferWrite
  \/ XferFlush
  \/ XferAck

Spec == Init /\ [][Next]_vars

\* main up to the call of upload_firmware, for every file length up to
\* MaxRawLength
NextSizes ==
  \/ CheckArgs
  \/ PreCheckFirmware
  \/ ReadFirmwareAnyLength
  \/ CheckFirmware
  \/ OpenPort

SpecSizes == Init /\ [][NextSizes]_vars

\* the whole program on two files, one rejected by the size check and one of
\* 40001 bytes (1251 blocks, the buffer resized)
ReadFirmwareLive == ReadFirmwareFrom({<<39968, "zero">>, <<40001, "ramp">>})

NextLive ==
  \/ CheckArgs
  \/ PreCheckFirmware
  \/ ReadFirmwareLive
  \/ CheckFirmware
  \/ OpenPort
  \/ HsRead
  \/ InitWrite
  \/ XferWrite
  \/ XferFlush
  \/ XferAck

\* the process is never suspended for good: a blocked call returns (with Ok
\* or Err) and the next statement runs
SpecLive == Init /\ [][NextLive]_vars /\ WF_vars(NextLive)

(***************************************************************************)
(* Properties.                                                             *)
(***************************************************************************)
\* the number of 32-byte blocks of the padded image, from the raw length
ImageBlocks == (content_length + 31) \div 32

\* positions inside the transfer loop
XferPcs == {"xfer_write", "xfer_flush", "xfer_ack"}

\* this step is a handshake read
IsHsReadStep == pc = "hs_read" /\ polls' = polls + 1

\* C1: in the handshake loop found goes from false to true once, on the first
\* 0xA5 read, and write_all(init) is called once, right after it; a 0xA5 read
\* when found is already set leaves found, the position in the loop and the
\* init writes as they are and calls nothing on the transport.
C1_InitOnce ==
  [][ /\ (found' # found =>
            ~found /\ found' /\ IsHsReadStep /\ byte' = Sentinel
              /\ sentinels = 0 /\ pc' = "init_write")
      /\ (initWrites' # initWrites =>
            initWrites = 0 /\ initWrites' = 1 /\ found /\ sentinels = 1
              /\ initSent' = InitSequence)
      /\ (IsHsReadStep /\ byte' = Sentinel /\ sentinels >= 1 =>
            /\ found /\ found'
            /\ pc' = "hs_read"
            /\ lastOp' = "read"
            /\ UNCHANGED <<initWrites, initSent, nBlockWrites, nFlushes, nAcks>>)
      /\ (sentinels' >= 1 =>
            found' /\ (initWrites' = 1 \/ (pc' = "init_write" /\ initWrites' = 0)))
    ]_vars

\* C1 witness: three sentinels were read, one init write, and the transfer began
C1_Witness ==
  sentinels = 3 /\ initWrites = 1 /\ found /\ pc = "xfer_write"

\* C2: per block the transport sees write, then flush, then one acknowledgement
\* read; a block is written only when every earlier block was flushed and its
\* acknowledgement read returned Ok, one read per block.
C2_WriteFlushAck ==
  [][ /\ (nBlockWrites' # nBlockWrites =>
            /\ nBlockWrites' = nBlockWrites + 1
            /\ lastOp' = "write_block"
            /\ nFlushes = nBlockWrites /\ nAcks = nBlockWrites
            /\ (nBlockWrites > 0 => lastOp = "ack_read" /\ lastOk)
            /\ UNCHANGED <<nFlushes, nAcks>>)
      /\ (nFlushes' # nFlushes =>
            /\ nFlushes' = nFlushes + 1
            /\ lastOp' = "flush"
            /\ lastOp = "write_block" /\ lastOk
            /\ nFlushes' = nBlockWrites
            /\ UNCHANGED <<nBlockWrites, nAcks>>)
      /\ (nAcks' # nAcks =>
            /\ nAcks' = nAcks + 1
            /\ lastOp' = "ack_read"
            /\ lastOp = "flush" /\ lastOk
            /\ nAcks' = nFlushes
            /\ UNCHANGED <<nBlockWrites, nFlushes>>)
    ]_vars

\* C2 witness: the third block was written after two acknowledged blocks
C2_Witness ==
  pc = "xfer_flush" /\ nBlockWrites = 3 /\ nFlushes = 2 /\ nAcks = 2

\* C3: a block is written only after the init sequence was written with success
\* and a failed read was then seen with found set; the loop is left for the
\* transfer only by such a read, and a failed read with found unset polls on.
C3_ArmedThenSilence ==
  [][ /\ (nBlockWrites' # nBlockWrites =>
            found /\ initWrites = 1 /\ byte = NoData)
      /\ (pc = "init_write" /\ pc' # "exited" =>
            lastOp' = "write_init" /\ lastOk' /\ pc' = "hs_read")
      /\ (pc' \in XferPcs /\ pc \notin XferPcs =>
            /\ IsHsReadStep /\ found /\ initWrites = 1
            /\ byte' = NoData /\ ~lastOk'
            /\ pc' = "xfer_write" /\ nBlockWrites' = 0)
      /\ (IsHsReadStep /\ pc' = "exited" => status' # ExitOk)
      /\ (IsHsReadStep /\ ~found /\ byte' = NoData =>
            pc' = "hs_read" /\ ~found' /\ status' = RUNNING)
    ]_vars

\* C3 witness: silence while waiting, then the sentinel, then silence, then a
\* block was written
C3_Witness ==
  polls = 3 /\ sentinels = 1 /\ nBlockWrites = 1 /\ found /\ byte = NoData

\* the block index carried by bytes 1 and 2 of the packet last written
PacketIndex == 256 * packet[2] + packet[3]

\* C4: a run that ends with status 0 has written one packet per block of the
\* padded image, with indices 0, 1, 2, ... in this order, and each was flushed
\* and its acknowledgement read returned Ok before the exit.
C4_CompleteTransfer ==
  [][ /\ (nBlockWrites' # nBlockWrites =>
            nBlockWrites' = nBlockWrites + 1 /\ PacketIndex' = nBlockWrites)
      /\ (pc' = "exited" /\ status' = ExitOk =>
            /\ ImageBlocks >= 1
            /\ nBlockWrites' = ImageBlocks
            /\ nFlushes' = ImageBlocks
            /\ nAcks' = ImageBlocks
            /\ PacketIndex' = ImageBlocks - 1
            /\ lastOp' = "ack_read" /\ lastOk'
            /\ err_msg' = "none")
    ]_vars

\* C4 witness: a 40000-byte image of zeros, 0xA5 three times then silence,
\* every packet acknowledged with 0x00: 1250 packets and status 0
C4_Witness ==
  /\ pc = "exited" /\ status = ExitOk
  /\ content_length = 40000 /\ fill = "zero"
  /\ sentinels = 3 /\ polls = 4
  /\ nBlockWrites = 1250 /\ nAcks = 1250 /\ ack = 0

\* C5: byte 0 of a written packet is 0xA2 when it is the packet of the last
\* block of the padded image and 0xA1 otherwise; nothing is written after the
\* 0xA2 packet, so one packet of a complete transfer carries 0xA2, the last.
C5_Opcode ==
  nBlockWrites > 0 =>
    /\ nBlockWrites <= ImageBlocks
    /\ packet[1] = (IF nBlockWrites = ImageBlocks THEN 162 ELSE 161)
    /\ (packet[1] = 162 <=> (PacketIndex + 1) * 32 >= ImageBlocks * 32)

\* C5 witness: a complete transfer of an image whose length is no multiple of
\* 32; the last packet written carries 0xA2
C5_Witness ==
  /\ pc = "exited" /\ status = ExitOk
  /\ content_length = 40001 /\ nBlockWrites = 1251 /\ packet[1] = 162

\* C6: when write_all fails on the packet of block k the process exits with
\* status 5 and prints byte offset k*32; block k was not flushed, no
\* acknowledgement was read for it, and nothing happens after the exit.
C6_WriteFailure ==
  [][ /\ (pc = "xfer_write" /\ lastOp' = "write_block" /\ ~lastOk' =>
            /\ pc' = "exited"
            /\ status' = WriteError
            /\ err_msg' = "write"
            /\ err_pos' = nBlockWrites * 32
            /\ nBlockWrites' = nBlockWrites + 1
            /\ UNCHANGED <<nFlushes, nAcks>>
            /\ nFlushes = nBlockWrites /\ nAcks = nBlockWrites)
      /\ ~(pc = "exited" /\ err_msg = "write")
    ]_vars

\* C6 witness: the write of block 5 failed: offset 160, five blocks flushed and
\* acknowledged
C6_Witness ==
  /\ pc = "exited" /\ status = WriteError /\ err_pos = 160
  /\ nBlockWrites = 6 /\ nFlushes = 5 /\ nAcks = 5 /\ PacketIndex = 5

\* C7 as claimed: when flush fails after block k the process exits with status
\* 5 and prints byte offset k*32, with no acknowledgement read and no more
\* writes.
C7_FlushReportsOffset ==
  pc = "exited" /\ lastOp = "flush" /\ ~lastOk =>
    /\ status = WriteError
    /\ err_pos = blk * 32
    /\ nAcks = blk /\ nBlockWrites = blk + 1

\* C7 amended: when flush fails after block k the process exits with status 5
\* and a diagnostic that carries no byte offset; no acknowledgement is read
\* for block k, no further block is written, nothing happens after the exit.
C7_FlushFailure ==
  [][ /\ (pc = "xfer_flush" /\ lastOp' = "flush" /\ ~lastOk' =>
            /\ pc' = "exited"
            /\ status' = WriteError
            /\ err_msg' = "flush"
            /\ err_pos' = NoPos
            /\ nFlushes' = nFlushes + 1
            /\ UNCHANGED <<nBlockWrites, nAcks>>
            /\ nBlockWrites = nFlushes + 1 /\ nAcks = nFlushes)
      /\ ~(pc = "exited" /\ err_msg = "flush")
    ]_vars

\* C7 witness: the flush after block 5 failed
C7_Witness ==
  /\ pc = "exited" /\ status = WriteError /\ err_msg = "flush"
  /\ err_pos = NoPos /\ blk = 5
  /\ nBlockWrites = 6 /\ nFlushes = 6 /\ nAcks = 5

\* C8: when the acknowledgement read after block k fails the process exits
\* with status 6 and prints byte offset k*32; the read was made once, block
\* k+1 is not written, nothing happens after the exit.
C8_AckFailure ==
  [][ /\ (pc = "xfer_ack" /\ lastOp' = "ack_read" /\ ~lastOk' =>
            /\ pc' = "exited"
            /\ status' = AckError
            /\ err_msg' = "ack_read"
            /\ err_pos' = nAcks * 32
            /\ nAcks' = nAcks + 1
            /\ UNCHANGED <<nBlockWrites, nFlushes>>
            /\ nBlockWrites = nAcks + 1)
      /\ ~(pc = "exited" /\ err_msg = "ack_read")
    ]_vars

\* C8 witness: the acknowledgement read after block 2 failed: offset 64
C8_Witness ==
  /\ pc = "exited" /\ status = AckError /\ err_pos = 64
  /\ nBlockWrites = 3 /\ nFlushes = 3 /\ nAcks = 3

\* C9: a handshake read that returns Ok with a byte other than 0xA5 ends the
\* process with status 4, whether or not found is set; no block was or will be
\* written, no call on the transport follows, and when found was unset the
\* init sequence was never written.
C9_UnexpectedByte ==
  [][ /\ (IsHsReadStep /\ lastOk' /\ byte' # Sentinel =>
            /\ pc' = "exited"
            /\ status' = InitWriteError
            /\ err_msg' = "unexpected_data"
            /\ nBlockWrites' = 0 /\ nFlushes' = 0 /\ nAcks' = 0
            /\ UNCHANGED <<found, initWrites>>
            /\ (~found => initWrites' = 0))
      /\ ~(pc = "exited" /\ err_msg = "unexpected_data")
    ]_vars

\* C9 witness: the sentinel, the init write, then a zero byte
C9_Witness ==
  /\ pc = "exited" /\ status = InitWriteError /\ err_msg = "unexpected_data"
  /\ found /\ initWrites = 1 /\ byte = 0 /\ lastOk

\* C10: when write_all(init) fails the process exits with status 4; the write
\* was made once, no read and no block write follows.
C10_InitWriteFailure ==
  [][ /\ (pc = "init_write" /\ ~lastOk' =>
            /\ lastOp' = "write_init"
            /\ pc' = "exited"
            /\ status' = InitWriteError
            /\ err_msg' = "init_write"
            /\ initWrites = 0 /\ initWrites' = 1
            /\ nBlockWrites' = 0
            /\ UNCHANGED polls)
      /\ ~(pc = "exited" /\ err_msg = "init_write")
    ]_vars

\* C10 witness: silence, the sentinel, then the init write failed
C10_Witness ==
  /\ pc = "exited" /\ status = InitWriteError /\ err_msg = "init_write"
  /\ lastOp = "write_init" /\ ~lastOk /\ polls = 2 /\ initWrites = 1

\* the padded length of the image, from the raw length
ImagePaddedLength == ImageBlocks * 32

\* C11: as long as every handshake read has failed (no 0xA5, no other byte),
\* however many there were, the program is still in the handshake loop about
\* to read again, with found unset: the init sequence was not written, the
\* transfer has not begun, and the process has not exited.
C11_SilenceKeepsWaiting ==
  polls >= 1 /\ sentinels = 0 /\ byte = NoData =>
    /\ pc = "hs_read"
    /\ ~found
    /\ initWrites = 0 /\ initSent = <<>>
    /\ len = 0 /\ nBlockWrites = 0 /\ nFlushes = 0 /\ nAcks = 0
    /\ lastOp = "read" /\ ~lastOk
    /\ status = RUNNING /\ err_msg = "none"

\* C11 witness: MaxPolls reads, all failed
C11_Witness ==
  polls = MaxPolls /\ sentinels = 0 /\ byte = NoData /\ pc = "hs_read"

\* C12: check_firmware ends the process with status 2 when the padded length
\* of the file is below 40000 or above 65536, before the port is opened and
\* before any call on the transport, and lets main go on to open_port
\* otherwise; the port is open only for a padded length within the range.
C12_SizeCheck ==
  [][ /\ (pc = "check_firmware" =>
            IF ImagePaddedLength < 40000 \/ ImagePaddedLength > 65536
              THEN /\ pc' = "exited"
                   /\ status' = FilesizeError
                   /\ err_msg' = "filesize"
                   /\ ~port_open /\ ~port_open'
                   /\ lastOp' = "none" /\ polls' = 0 /\ initWrites' = 0
                   /\ nBlockWrites' = 0 /\ nFlushes' = 0 /\ nAcks' = 0
              ELSE pc' = "open_port" /\ status' = RUNNING)
      /\ (port_open' \/ lastOp' # "none" =>
            ImagePaddedLength' >= 40000 /\ ImagePaddedLength' <= 65536)
      /\ ~(pc = "exited" /\ err_msg = "filesize")
    ]_vars

\* C12 witness: a file of 65537 bytes, padded length 65568, is rejected
C12_Witness ==
  /\ pc = "exited" /\ status = FilesizeError
  /\ content_length = 65537 /\ ~port_open /\ lastOp = "none"

\* C13 as claimed: the init sequence written is 34 bytes, A0 EE 74 71 07 74
\* and 28 bytes of 0x55.
C13_Init34Bytes ==
  initWrites > 0 =>
    initSent = <<160, 238, 116, 113, 7, 116>> \o [j \in 1..28 |-> 85]

\* C13 amended: the init sequence written on the first sentinel is 36 bytes,
\* A0 EE 74 71 07 74 and 30 bytes of 0x55.
C13_Init36Bytes ==
  /\ (initWrites = 0 => initSent = <<>>)
  /\ (initWrites > 0 =>
        /\ sentinels >= 1
        /\ Len(initSent) = 36
        /\ SubSeq(initSent, 1, 6) = <<160, 238, 116, 113, 7, 116>>
        /\ \A j \in 7..36 : initSent[j] = 85)

\* C13 witness: the init sequence was written after the first sentinel
C13_Witness ==
  /\ initWrites = 1 /\ sentinels = 1 /\ lastOp = "write_init" /\ lastOk
  /\ Len(initSent) = 36 /\ initSent[36] = 85

\* C14: for every file length n read, get_padded_length(n) is a multiple of
\* 32, at least n and below n + 32 (so it is n when 32 divides n).
C14_PaddedLength ==
  pc \notin {"args", "pre_check", "read_firmware"} =>
    LET n == content_length
        p == get_padded_length(n)
    IN /\ p % 32 = 0
       /\ n <= p
       /\ p < n + 32
       /\ (n % 32 = 0 => p = n)

\* C14 witness: a file of 40001 bytes passed the size check, padded to 40032
C14_Witness ==
  /\ pc = "open_port" /\ content_length = 40001
  /\ get_padded_length(content_length) = 40032

\* the sum of the elements lo..hi of a sequence of numbers
RECURSIVE SumRange(_, _, _)
SumRange(q, lo, hi) == IF lo > hi THEN 0 ELSE q[lo] + SumRange(q, lo + 1, hi)

\* the index of the block whose packet was written last
LastWritten == nBlockWrites - 1

\* byte at offset i of the image padded with zeros
ImageByte(i) == IF i < content_length THEN FileByte(fill, i) ELSE 0

\* C15: byte 3 of every packet written is the sum modulo 256 of the 32
\* payload bytes that follow it in the same packet.
C15_Checksum ==
  nBlockWrites > 0 =>
    /\ Len(packet) = 36
    /\ packet[4] \in 0..255
    /\ packet[4] = SumRange(packet, 5, 36) % 256

\* C15 witness: a block of 32 bytes 0xFF was written with checksum 0xE0
C15_Witness ==
  /\ nBlockWrites > 0 /\ fill = "ff"
  /\ \A j \in 5..36 : packet[j] = 255
  /\ packet[4] = 224

\* C16: every packet written is 36 bytes and its payload for block i is the
\* image at offsets i*32 .. i*32+31, zero at and beyond the raw length; with
\* the blocks written in order 0 .. padded_length/32 - 1 the payloads make up
\* the raw image followed by zeros up to the padded length.
C16_Payload ==
  nBlockWrites > 0 =>
    /\ Len(packet) = 36
    /\ LastWritten * 32 + 32 <= ImagePaddedLength
    /\ \A j \in 1..32 : packet[4 + j] = ImageByte(LastWritten * 32 + j - 1)
    /\ (pc = "exited" /\ status = ExitOk =>
          LastWritten * 32 + 32 = ImagePaddedLength)

\* C16 witness: the last block of a 40001-byte image: one byte of the file,
\* then zeros
C16_Witness ==
  /\ content_length = 40001 /\ fill = "ramp" /\ nBlockWrites = 1251
  /\ packet[5] = 195 /\ \A j \in 6..36 : packet[j] = 0

\* C17: bytes 1 and 2 of every packet written are the high and the low byte
\* of the block index, which is below 2^16, so that 256*byte1 + byte2 is the
\* index and no two packets of a transfer carry the same two bytes.
C17_IndexBytes ==
  nBlockWrites > 0 =>
    /\ LastWritten < 65536
    /\ packet[2] \in 0..255 /\ packet[3] \in 0..255
    /\ 256 * packet[2] + packet[3] = LastWritten

\* C17 witness: block 300 was written with index bytes 0x01 0x2C
C17_Witness ==
  nBlockWrites = 301 /\ packet[2] = 1 /\ packet[3] = 44

\* C20: in the transfer the buffer is as long as the padded length when 32
\* divides the raw length and 32 bytes longer otherwise; every slice taken
\* lies within the first padded-length bytes of it, and no slice is out of
\* range.
C20_SliceWithinBuffer ==
  /\ status # PANIC
  /\ (pc \in XferPcs \/ nBlockWrites > 0 =>
        /\ len = ImagePaddedLength
        /\ padded_data_len =
             (IF content_length % 32 = 0 THEN len ELSE len + 32)
        /\ blk >= 0 /\ blk <= (len \div 32) - 1
        /\ blk * 32 + 32 <= len
        /\ len <= padded_data_len)

\* C20 witness: a complete transfer of a 40001-byte image from a buffer of
\* 40064 bytes, the last slice ending at 40032
C20_Witness ==
  /\ pc = "exited" /\ status = ExitOk /\ content_length = 40001
  /\ padded_data_len = 40064 /\ blk * 32 + 32 = 40032

\* the packet of block i of the image, from the image alone
ImagePacket(i) ==
  LET payload == [j \in 1..32 |-> ImageByte(i * 32 + j - 1)] IN
    << IF (i + 1) * 32 >= ImagePaddedLength THEN 162 ELSE 161,
       i \div 256, i % 256, SumRange(payload, 1, 32) % 256 >> \o payload

\* C18: two runs on the same image whose transport calls have the same
\* outcomes have, after the same number of calls, the same nAcks, lastOp and
\* lastOk (a failed call ends the run, so these three sum up the outcomes of
\* the transfer so far).  The packet last written, the numbers of writes and
\* flushes, the position, the exit status and the diagnostic are functions
\* of the image and of these three in every reachable state, and the bytes
\* the acknowledgement reads returned are no argument of them: the two runs
\* write the same packets and end alike whatever those bytes were.
C18_AckValueIgnored ==
  nAcks > 0 =>
    /\ lastOp \in {"write_block", "flush", "ack_read"}
    /\ nBlockWrites = (IF lastOp = "ack_read" THEN nAcks ELSE nAcks + 1)
    /\ nFlushes = (IF lastOp = "flush" THEN nAcks + 1 ELSE nAcks)
    /\ packet = ImagePacket(LastWritten)
    /\ status =
         (IF ~lastOk
            THEN (IF lastOp = "ack_read" THEN AckError ELSE WriteError)
            ELSE IF lastOp = "ack_read" /\ nAcks = ImageBlocks
              THEN ExitOk
              ELSE RUNNING)
    /\ pc =
         (IF ~lastOk \/ (lastOp = "ack_read" /\ nAcks = ImageBlocks)
            THEN "exited"
            ELSE CASE lastOp = "ack_read" -> "xfer_write"
                   [] lastOp = "write_block" -> "xfer_flush"
                   [] lastOp = "flush" -> "xfer_ack")
    /\ err_pos =
         (IF ~lastOk /\ lastOp # "flush" THEN LastWritten * 32 ELSE NoPos)
    /\ blk = LastWritten + (IF pc = "xfer_write" THEN 1 ELSE 0)

\* C18 witness: the last acknowledgement byte was 0xA5, not zero, and the
\* transfer is complete with status 0
C18_Witness ==
  /\ pc = "exited" /\ status = ExitOk /\ ack = 165
  /\ content_length = 40000 /\ nAcks = 1250

\* C19: the transfer loop ends: from any point in it the process exits, the
\* number of blocks written never exceeds padded_length/32, and an exit that
\* follows a successful call is the one after padded_length/32 iterations,
\* with status 0.
C19_TransferTerminates ==
  /\ [](pc \in XferPcs => <>(pc = "exited"))
  /\ [](nBlockWrites <= ImageBlocks /\ nAcks <= ImageBlocks)
  /\ [](pc = "exited" /\ nBlockWrites > 0 /\ lastOk =>
          /\ status = ExitOk
          /\ nBlockWrites = ImageBlocks /\ nAcks = ImageBlocks
          /\ blk = ImageBlocks - 1)

\* C19 witness: found was set, a read then failed, every later call returned
\* Ok, and the process exited with status 0 after 1251 iterations
C19_Witness ==
  /\ pc = "exited" /\ status = ExitOk /\ found /\ byte = NoData
  /\ content_length = 40001 /\ nAcks = 1251 /\ lastOk

====
